---- MODULE Spec2Model ----
(***************************************************************************)
(* A model of qinspect/middleware.py (django-queryinspect): the per-request *)
(* query analysis of QueryInspectMiddleware.                                *)
(*                                                                          *)
(* Conventions of the model                                                 *)
(*  - An SQL text is a sequence of one-character strings.                   *)
(*  - q["time"] of a captured record is the decimal text Django writes      *)
(*    ("%.3f" seconds); it is held as its number of milliseconds.           *)
(*  - A Python float is a binary floating point number [m, e] of value      *)
(*    m * 2^e with a Prec-bit significand, rounded to nearest, ties to even,*)
(*    after every operation (Prec is 53 for the program; the model keeps it *)
(*    small).  Only non-negative values occur.                              *)
(*  - django.db.connection is the connection of the calling thread, so      *)
(*    connection.queries is one log per execution context.                  *)
(***************************************************************************)
EXTENDS Integers, Sequences, FiniteSets, TLC

(***************************************************************************)
(* Bounds of the model.                                                     *)
(***************************************************************************)
Prec == 10
NumCtx == 2
MaxQueries == 2
MaxElapsed == 1
MaxDupBatch == 4
MaxDupMin == 3
MaxAbsBatch == 2
MaxLimit == 2
MaxStdBatch == 3
MaxMultiplier == 1
MaxTruncLimit == 7
MaxTextLen == 8
MaxSqlLen == 4

(***************************************************************************)
(* Binary floating point, as CPython's float does it.                       *)
(***************************************************************************)
RECURSIVE BitLen(_)
BitLen(n) == IF n = 0 THEN 0 ELSE 1 + BitLen(n \div 2)

FZero == [m |-> 0, e |-> 0]

\* The float nearest to a value v with n * 2^e <= v < (n + 1) * 2^e, where
\* sticky says that v > n * 2^e.  Callers pass n with at least Prec + 2 bits
\* whenever sticky is set.
FRound(n, e, sticky) ==
  IF n = 0 THEN FZero
  ELSE LET b == BitLen(n) IN
       IF b <= Prec
       THEN [m |-> n * 2^(Prec - b), e |-> e - (Prec - b)]
       ELSE LET sh == b - Prec
                q == n \div 2^sh
                r == n % 2^sh
                half == 2^(sh - 1)
                up == r > half \/ (r = half /\ (sticky \/ q % 2 = 1))
                q2 == IF up THEN q + 1 ELSE q
            IN IF q2 = 2^Prec
               THEN [m |-> 2^(Prec - 1), e |-> e + sh + 1]
               ELSE [m |-> q2, e |-> e + sh]

\* float(n) of an int n >= 0.
FFromInt(n) == FRound(n, 0, FALSE)

\* The correctly rounded quotient of two positive ints: float("0.003") is
\* FRatio(3, 1000).
FRatio(num, den) ==
  IF num = 0 THEN FZero
  ELSE LET s0 == Prec + 2 + BitLen(den) - BitLen(num)
           s == IF s0 < 0 THEN 0 ELSE s0
           n == (num * 2^s) \div den
           rem == (num * 2^s) % den
       IN FRound(n, 0 - s, rem # 0)

\* a / b
FDiv(a, b) ==
  IF a.m = 0 THEN FZero
  ELSE LET n == (a.m * 2^(Prec + 2)) \div b.m
           rem == (a.m * 2^(Prec + 2)) % b.m
       IN FRound(n, a.e - b.e - (Prec + 2), rem # 0)

\* a * b
FMul(a, b) ==
  IF a.m = 0 \/ b.m = 0 THEN FZero ELSE FRound(a.m * b.m, a.e + b.e, FALSE)

\* a > b
FGt(a, b) ==
  IF a.m = 0 THEN FALSE
  ELSE IF b.m = 0 THEN TRUE
  ELSE IF a.e # b.e THEN a.e > b.e
  ELSE a.m > b.m

\* a + b.  An operand more than Prec + 2 binary places below the other is
\* under a quarter of its last place and rounds away.
FAdd(a, b) ==
  IF a.m = 0 THEN b
  ELSE IF b.m = 0 THEN a
  ELSE LET hi == IF a.e >= b.e THEN a ELSE b
           lo == IF a.e >= b.e THEN b ELSE a
           gap == hi.e - lo.e
       IN IF gap > Prec + 2 THEN hi
          ELSE FRound(hi.m * 2^gap + lo.m, lo.e, FALSE)

\* |a - b|: the value of a - b without its sign, which (a - b) ** 2 drops.
FAbsDiff(a, b) ==
  IF a.m = 0 THEN b
  ELSE IF b.m = 0 THEN a
  ELSE LET hi == IF FGt(b, a) THEN b ELSE a
           lo == IF FGt(b, a) THEN a ELSE b
           gap == hi.e - lo.e
       IN IF gap > Prec + 2 THEN hi
          ELSE FRound(hi.m * 2^gap - lo.m, lo.e, FALSE)

RECURSIVE ISqrtIn(_, _, _)
ISqrtIn(n, lo, hi) ==
  IF hi - lo <= 1 THEN lo
  ELSE LET mid == (lo + hi) \div 2
       IN IF mid * mid <= n THEN ISqrtIn(n, mid, hi) ELSE ISqrtIn(n, lo, mid)

\* floor(sqrt(n)) for 2^(2 * Prec + 2) <= n < 2^(2 * Prec + 4): the root has
\* Prec + 2 bits.
ISqrt(n) == ISqrtIn(n, 2^(Prec + 1), 2^(Prec + 2))

\* math.sqrt(a)
FSqrt(a) ==
  IF a.m = 0 THEN FZero
  ELSE LET k0 == Prec + 3
           k == IF (a.e - k0) % 2 = 0 THEN k0 ELSE k0 + 1
           n == a.m * 2^k
           r == ISqrt(n)
       IN FRound(r, (a.e - k) \div 2, r * r # n)

\* int(a), as "%d" % a formats a float.
FTrunc(a) ==
  IF a.e >= 0 THEN a.m * 2^a.e
  ELSE IF 0 - a.e >= Prec THEN 0
  ELSE a.m \div 2^(0 - a.e)

(***************************************************************************)
(* Data.                                                                    *)
(***************************************************************************)
\* A value that may be None (q["sql"], q.get("tb"), a cfg limit) is held as
\* <<>> for None and as <<x>> for x.
None == <<>>
Some(x) == <<x>>
Val(x) == x[1]

Digits == {"0", "1", "2", "3", "4", "5", "6", "7", "8", "9"}
Spaces == {" ", "\t", "\n"}

\* The stack frames (traceback.FrameSummary) of the model.
Frame1 == [filename |-> "views.py", lineno |-> 10]
Frame2 == [filename |-> "models.py", lineno |-> 20]

VARIABLES
  cfg,      \* the module's cfg dict, read once at import
  queries,  \* connection.queries of each execution context's connection
  local,    \* _local: the attributes each execution context sees
  gauges,   \* the samples of the two Gauges, by (gauge, file, linenum)
  span,     \* per context: the number of process_request calls so far
  open,     \* per context: process_request ran since the last process_response
  batch,    \* the captured records handed to an analysis function
  text,     \* the SQL text handed to truncate_sql or to the mask
  last      \* what the last call did: its arguments, result, log lines

vars == <<cfg, queries, local, gauges, span, open, batch, text, last>>

Ctx == 1 .. NumCtx

(***************************************************************************)
(* sql_id_pattern.sub("= ?", sql)                                           *)
(***************************************************************************)
RECURSIVE SkipWhile(_, _, _)
SkipWhile(s, i, set) ==
  IF i <= Len(s) /\ s[i] \in set THEN SkipWhile(s, i + 1, set) ELSE i

OneDigitEnd(s, j) == IF j <= Len(s) /\ s[j] \in Digits THEN j + 1 ELSE j

\* The \d+ of the pattern: one or more digits, as many as there are.
DigitsEnd(s, j) == SkipWhile(s, j, Digits)

\* Where a match of =\s*\d+ that starts at i ends (the index after it), or 0.
MatchEnd(s, i) ==
  IF s[i] # "=" THEN 0
  ELSE LET j == SkipWhile(s, i + 1, Spaces)
           k == DigitsEnd(s, j)
       IN IF k > j THEN k ELSE 0

RECURSIVE MaskFrom(_, _)
MaskFrom(s, i) ==
  IF i > Len(s) THEN <<>>
  ELSE LET k == MatchEnd(s, i)
       IN IF k > 0 THEN <<"=", " ", "?">> \o MaskFrom(s, k)
          ELSE <<s[i]>> \o MaskFrom(s, i + 1)

Mask(s) == MaskFrom(s, 1)

(***************************************************************************)
(* get_query_infos                                                          *)
(***************************************************************************)
\* qi.tb = q.get("tb") may be None; the loop over it fills qi.summaries.
QueryInfo(q) ==
  [sql |-> Mask(Val(q.sql)),
   time |-> FRatio(q.time, 1000),
   tb |-> q.tb,
   summaries |-> Val(q.tb)]

\* for summary in qi.tb: a TypeError when qi.tb is None.
RaisesOnTb(q) == q.tb = None

RECURSIVE InfosOf(_)
InfosOf(qs) ==
  IF qs = <<>> THEN <<>>
  ELSE IF Head(qs).sql = None THEN InfosOf(Tail(qs))
  ELSE <<QueryInfo(Head(qs))>> \o InfosOf(Tail(qs))

get_query_infos(qs) ==
  IF \E i \in 1 .. Len(qs) : qs[i].sql # None /\ RaisesOnTb(qs[i])
  THEN [raised |-> TRUE, infos |-> <<>>]
  ELSE [raised |-> FALSE, infos |-> InfosOf(qs)]

(***************************************************************************)
(* count_duplicates, group_queries, check_duplicates                        *)
(***************************************************************************)
\* buf[sql] = buf[sql] + 1 on a dict, which keeps its keys in insertion order.
Bump(buf, sql) ==
  IF \E i \in 1 .. Len(buf) : buf[i][1] = sql
  THEN [i \in 1 .. Len(buf) |->
          IF buf[i][1] = sql THEN <<sql, buf[i][2] + 1>> ELSE buf[i]]
  ELSE Append(buf, <<sql, 1>>)

RECURSIVE CountBuf(_, _)
CountBuf(infos, buf) ==
  IF infos = <<>> THEN buf
  ELSE CountBuf(Tail(infos), Bump(buf, Head(infos).sql))

\* Whether el goes before x in sorted(..., key=count, reverse=True): the sort
\* is stable, so an element passes only those of a smaller count.
GoesBeforeOrTie(el, x) == el[2] >= x[2]

GoesBefore(el, x) == el[2] > x[2]

RECURSIVE InsertSorted(_, _)
InsertSorted(sorted, el) ==
  IF sorted = <<>> THEN <<el>>
  ELSE LET lst == sorted[Len(sorted)]
       IN IF GoesBefore(el, lst)
          THEN Append(InsertSorted(SubSeq(sorted, 1, Len(sorted) - 1), el), lst)
          ELSE Append(sorted, el)

RECURSIVE SortedByCount(_, _)
SortedByCount(items, acc) ==
  IF items = <<>> THEN acc
  ELSE SortedByCount(Tail(items), InsertSorted(acc, Head(items)))

count_duplicates(infos) == SortedByCount(CountBuf(infos, <<>>), <<>>)

\* buf[qi.sql].append(qi): the queries of one SQL text, in batch order.
group_queries(infos, sql) == SelectSeq(infos, LAMBDA qi : qi.sql = sql)

RECURSIVE Reverse(_)
Reverse(s) == IF s = <<>> THEN <<>> ELSE Append(Reverse(Tail(s)), Head(s))

RECURSIVE SumCounts(_)
SumCounts(items) ==
  IF items = <<>> THEN 0 ELSE Head(items)[2] + SumCounts(Tail(items))

IsDuplicateAbove(num, config) == num > config.duplicate_min

\* if num >= cfg["duplicate_min"]
IsDuplicate(num, config) == num >= config.duplicate_min

RECURSIVE DuplicateLog(_, _, _)
DuplicateLog(duplicates, infos, config) ==
  IF duplicates = <<>> THEN <<>>
  ELSE LET sql == Head(duplicates)[1]
           num == Head(duplicates)[2]
           group == group_queries(infos, sql)
       IN <<[level |-> "warning", msg |-> "repeated query", num |-> num,
             sql |-> sql]>>
          \o (IF config.log_tbs /\ group # <<>>
              THEN <<[level |-> "warning", msg |-> "Traceback",
                      tb |-> Val(group[1].tb)]>>
              ELSE <<>>)
          \o DuplicateLog(Tail(duplicates), infos, config)

check_duplicates(infos, config) ==
  LET duplicates ==
        Reverse(SelectSeq(count_duplicates(infos),
                          LAMBDA el : IsDuplicate(el[2], config)))
      n == IF Len(duplicates) > 0
           THEN SumCounts(duplicates) - Len(duplicates)
           ELSE 0
  IN [n |-> n,
      log |-> IF config.log_queries
              THEN DuplicateLog(duplicates, infos, config)
              ELSE <<>>]

(***************************************************************************)
(* check_stddev_limit, check_absolute_limit                                 *)
(***************************************************************************)
\* sum(...) of floats: left to right from 0.
RECURSIVE FSum(_, _)
FSum(xs, acc) == IF xs = <<>> THEN acc ELSE FSum(Tail(xs), FAdd(acc, Head(xs)))

Times(infos) == [i \in 1 .. Len(infos) |-> infos[i].time]

OverLimitOrEqual(t, query_limit) == ~FGt(query_limit, t)

\* if qi.time > query_limit
OverLimit(t, query_limit) == FGt(t, query_limit)

\* The .labels(file=f, linenum=linenum).set(qi.time) calls for one query: one
\* per summary, since "summary is not []" is true of every summary.
SetCalls(gauge, qi) ==
  [i \in 1 .. Len(qi.summaries) |->
     [gauge |-> gauge, file |-> qi.summaries[i].filename,
      linenum |-> qi.summaries[i].lineno, value |-> qi.time]]

\* if files and lines: the message with the first frame, else the one without.
HasFrames(qi) == qi.summaries # <<>>

LimitLine(check, qi, query_limit, dev) ==
  IF HasFrames(qi)
  THEN [level |-> "warning", msg |-> check, frame |-> TRUE,
        ms |-> FTrunc(FMul(qi.time, FFromInt(1000))),
        limit_ms |-> FTrunc(FMul(query_limit, FFromInt(1000))),
        dev |-> dev,
        file |-> qi.summaries[1].filename, linenum |-> qi.summaries[1].lineno,
        sql |-> qi.sql]
  ELSE [level |-> "warning", msg |-> check, frame |-> FALSE,
        ms |-> FTrunc(FMul(qi.time, FFromInt(1000))),
        limit_ms |-> FTrunc(FMul(query_limit, FFromInt(1000))),
        dev |-> dev,
        file |-> "", linenum |-> 0,
        sql |-> qi.sql]

\* for qi in infos: if qi.time > query_limit: ...
RECURSIVE FlagAll(_, _, _, _, _)
FlagAll(infos, query_limit, check, gauge, dev) ==
  IF infos = <<>> THEN [log |-> <<>>, sets |-> <<>>]
  ELSE LET qi == Head(infos)
           rest == FlagAll(Tail(infos), query_limit, check, gauge, dev)
       IN IF OverLimit(qi.time, query_limit)
          THEN [log |-> <<LimitLine(check, qi, query_limit, dev)>> \o rest.log,
                sets |-> SetCalls(gauge, qi) \o rest.sets]
          ELSE rest

Mean(infos) == FDiv(FSum(Times(infos), FZero), FFromInt(Len(infos)))

StddevSum(infos) ==
  LET mean == Mean(infos)
      dev(t) == FAbsDiff(t, mean)
  IN FSum([i \in 1 .. Len(infos) |->
             FSqrt(FMul(dev(infos[i].time), dev(infos[i].time)))], FZero)

Stddev(infos) ==
  LET n == Len(infos)
  IN IF n < 2 THEN FZero
     ELSE FSqrt(FMul(FDiv(FFromInt(1), FFromInt(n - 1)),
                     FDiv(StddevSum(infos), FFromInt(n))))

StddevLimit(infos, config) ==
  FAdd(Mean(infos), FMul(Stddev(infos), FFromInt(Val(config.stddev_limit))))

check_stddev_limit(infos, config) ==
  IF config.stddev_limit = None \/ Len(infos) = 0
  THEN [log |-> <<>>, sets |-> <<>>]
  ELSE FlagAll(infos, StddevLimit(infos, config), "over stddev limit",
               "django_sql_query_stddev_latency", Val(config.stddev_limit))

\* query_limit = cfg["absolute_limit"] / 1000.0
AbsoluteLimit(config) ==
  FDiv(FFromInt(Val(config.absolute_limit)), FFromInt(1000))

check_absolute_limit(infos, config) ==
  IF config.absolute_limit = None \/ Len(infos) = 0
  THEN [log |-> <<>>, sets |-> <<>>]
  ELSE FlagAll(infos, AbsoluteLimit(config), "over absolute limit",
               "django_sql_query_absolute_latency", 0)

\* Gauge.labels(...).set(value), one call after the other.
RECURSIVE ApplySets(_, _)
ApplySets(g, sets) ==
  IF sets = <<>> THEN g
  ELSE LET c == Head(sets)
           key == <<c.gauge, c.file, c.linenum>>
       IN ApplySets([k \in DOMAIN g \cup {key} |->
                       IF k = key THEN c.value ELSE g[k]],
                    Tail(sets))

(***************************************************************************)
(* truncate_sql                                                             *)
(***************************************************************************)
Ellipsis == <<" ", ".", ".", ".", " ">>

\* Python's sql[:n] and sql[-n:] for any int n.
SliceTo(s, n) ==
  LET stop == IF n >= 0
              THEN (IF n > Len(s) THEN Len(s) ELSE n)
              ELSE (IF Len(s) + n < 0 THEN 0 ELSE Len(s) + n)
  IN SubSeq(s, 1, stop)

SliceFromMinus(s, n) ==
  LET m == 0 - n
      start == IF m >= 0
               THEN (IF m > Len(s) THEN Len(s) ELSE m)
               ELSE (IF Len(s) + m < 0 THEN 0 ELSE Len(s) + m)
  IN SubSeq(s, start + 1, Len(s))

\* "if limit": None and 0 are both false.
LimitSet(limit) == limit # None /\ Val(limit) # 0

truncate_sql(sql, config) ==
  LET limit == config.sql_log_limit
  IN IF LimitSet(limit) /\ Len(sql) > Val(limit)
     THEN LET n == (Val(limit) - 5) \div 2
          IN SliceTo(sql, n) \o Ellipsis \o SliceFromMinus(sql, n)
     ELSE sql

(***************************************************************************)
(* output_stats                                                             *)
(***************************************************************************)
\* A response is [status, headers], its headers a set of <<name, value>>.
StatsHeaders ==
  {"X-QueryInspect-Num-SQL-Queries", "X-QueryInspect-Total-SQL-Time",
   "X-QueryInspect-Total-Request-Time", "X-QueryInspect-Duplicate-SQL-Queries"}

output_stats(infos, num_duplicates, request_time, response, config) ==
  LET sql_ms == FTrunc(FMul(FSum(Times(infos), FZero), FFromInt(1000)))
      n == Len(infos)
  IN [log |-> IF config.log_stats
              THEN <<[level |-> "info", msg |-> "stats", n |-> n,
                      duplicates |-> num_duplicates, sql_ms |-> sql_ms,
                      request_ms |-> request_time * 1000]>>
              ELSE <<>>,
      response |-> IF config.header_stats
                   THEN [response EXCEPT !.headers =
                           {h \in @ : h[1] \notin StatsHeaders}
                           \cup
                           {<<"X-QueryInspect-Num-SQL-Queries", n>>,
                            <<"X-QueryInspect-Total-SQL-Time", sql_ms>>,
                            <<"X-QueryInspect-Total-Request-Time",
                              request_time * 1000>>,
                            <<"X-QueryInspect-Duplicate-SQL-Queries",
                              num_duplicates>>}]
                   ELSE response]

(***************************************************************************)
(* The module's cfg and the request handlers.                               *)
(***************************************************************************)
\* cfg with no QUERY_INSPECT_* setting but ENABLED.
DefaultCfg ==
  [log_stats |-> TRUE, header_stats |-> TRUE, log_queries |-> FALSE,
   log_tbs |-> FALSE, duplicate_min |-> 2, stddev_limit |-> None,
   absolute_limit |-> None, sql_log_limit |-> None]

\* _local = threading.local(): each execution context has attributes of its
\* own.  local[k] is a function from the attribute names that are set.
SharedSlot(c) == 1

Slot(c) == c

NoAttrs == [a \in {} |-> 0]

HasRequestStartAlways(attrs) == TRUE

\* hasattr(_local, "request_start")
HasRequestStart(attrs) == "request_start" \in DOMAIN attrs

\* connection.queries[_local.conn_queries_len :]
SliceFrom(qs, offset) ==
  SubSeq(qs, (IF offset > Len(qs) THEN Len(qs) ELSE offset) + 1, Len(qs))

NoCall == [op |-> "none"]

\* The state the handlers leave alone in a call of an analysis function.
IdleRequests ==
  /\ queries = [c \in Ctx |-> <<>>]
  /\ local = [c \in Ctx |-> NoAttrs]
  /\ span = [c \in Ctx |-> <<>>]
  /\ open = [c \in Ctx |-> FALSE]

OkResponse == [status |-> 200, headers |-> {}]
NoResponse == [status |-> 0, headers |-> {}]

\* The captured records of the request model: each took 0.150 s, over the
\* absolute limit of 100 ms of its cfg.
SqlA1 == <<"a", "=", "1">>
SqlA2 == <<"a", "=", "2">>

MainRecords ==
  {[sql |-> Some(SqlA1), time |-> 150, tb |-> None],
   [sql |-> Some(SqlA1), time |-> 150, tb |-> Some(<<>>)],
   [sql |-> Some(SqlA2), time |-> 150, tb |-> Some(<<Frame1>>)]}

MainCfgs ==
  {[DefaultCfg EXCEPT !.absolute_limit = a] : a \in {Some(100)}}

Init ==
  /\ cfg \in MainCfgs
  /\ IdleRequests
  /\ gauges = NoAttrs
  /\ batch = <<>>
  /\ text = <<>>
  /\ last = NoCall

RECURSIVE TotalLen(_, _)
TotalLen(f, S) ==
  IF S = {} THEN 0
  ELSE LET c == CHOOSE x \in S : TRUE IN Len(f[c]) + TotalLen(f, S \ {c})

\* The number of records captured so far, over all contexts.
Captured == TotalLen(queries, Ctx)

\* The cursor appends a record to the context's connection.queries.
ExecuteQuery(c, q) ==
  /\ Captured < MaxQueries
  /\ queries' = [queries EXCEPT ![c] = Append(@, q)]
  /\ span' = [span EXCEPT ![c] = IF open[c] THEN Append(@, q) ELSE @]
  /\ UNCHANGED <<cfg, local, gauges, open, batch, text, last>>

\* time.time() is kept relative to the reading process_request stores: the
\* model holds request_start as 0 and process_response reads the seconds
\* elapsed since.
process_request(c) ==
  /\ local' = [local EXCEPT ![Slot(c)] =
                 [request_start |-> 0,
                  conn_queries_len |-> Len(queries[c])]]
  /\ open' = [open EXCEPT ![c] = TRUE]
  /\ span' = [span EXCEPT ![c] = <<>>]
  /\ last' = [op |-> "process_request", ctx |-> c]
  /\ UNCHANGED <<cfg, queries, gauges, batch, text>>

\* What process_response(request, response) does on context c: the record of
\* the call (for `last`), the attributes it leaves, the gauges it leaves.
ResponseCall(c, response, elapsed) ==
  LET attrs == local[Slot(c)]
      call == [op |-> "process_response", ctx |-> c, response |-> response,
               began |-> open[c], own |-> span[c],
               had_baseline |-> "request_start" \in DOMAIN attrs]
      nothing == [analysed |-> FALSE, raised |-> FALSE, returned |-> response,
                  sliced |-> <<>>, n |-> 0, num_duplicates |-> 0,
                  log |-> <<>>, sets |-> <<>>]
  IN IF ~HasRequestStart(attrs)
     THEN [last |-> call @@ nothing, attrs |-> attrs, gauges |-> gauges]
     ELSE IF ~({"request_start", "conn_queries_len"} \subseteq DOMAIN attrs)
     THEN \* AttributeError on reading _local.request_start
          [last |-> call @@ [nothing EXCEPT !.raised = TRUE,
                                            !.returned = NoResponse],
           attrs |-> attrs, gauges |-> gauges]
     ELSE LET request_time == elapsed - attrs.request_start
              sliced == SliceFrom(queries[c], attrs.conn_queries_len)
              got == get_query_infos(sliced)
              infos == got.infos
              dup == check_duplicates(infos, cfg)
              sd == check_stddev_limit(infos, cfg)
              ab == check_absolute_limit(infos, cfg)
              out == output_stats(infos, dup.n, request_time, response, cfg)
          IN IF got.raised
             THEN \* the TypeError leaves process_response before the dels
                  [last |-> call @@ [nothing EXCEPT !.raised = TRUE,
                                                    !.returned = NoResponse,
                                                    !.sliced = sliced],
                   attrs |-> attrs, gauges |-> gauges]
             ELSE [last |-> call @@
                     [analysed |-> TRUE, raised |-> FALSE,
                      returned |-> out.response, sliced |-> sliced,
                      n |-> Len(infos), num_duplicates |-> dup.n,
                      log |-> dup.log \o sd.log \o ab.log \o out.log,
                      sets |-> sd.sets \o ab.sets],
                   attrs |-> NoAttrs,
                   gauges |-> ApplySets(gauges, sd.sets \o ab.sets)]

process_response(c, response, elapsed) ==
  LET r == ResponseCall(c, response, elapsed)
  IN /\ last' = r.last
     /\ local' = [local EXCEPT ![Slot(c)] = r.attrs]
     /\ gauges' = r.gauges
     /\ open' = [open EXCEPT ![c] = FALSE]
     /\ span' = [span EXCEPT ![c] = <<>>]
     /\ UNCHANGED <<cfg, queries, batch, text>>

Next ==
  \/ \E c \in Ctx, q \in MainRecords : ExecuteQuery(c, q)
  \/ \E c \in Ctx : process_request(c)
  \/ \E c \in Ctx, elapsed \in 0 .. MaxElapsed :
       process_response(c, OkResponse, elapsed)

Spec == Init /\ [][Next]_vars

(***************************************************************************)
(* The analysis functions called on their own, on every small batch.        *)
(***************************************************************************)
\* The input is built first, one element at a time, and then handed to the
\* function: nothing is appended once a call was made.
IdleAnalysis == batch = <<>> /\ text = <<>> /\ last = NoCall

SqlB == <<"b">>
SqlC == <<"c">>

\* The i-th query of a batch, when each is to have an SQL text of its own.
NthSql(i) == <<"q", <<"1", "2", "3", "4", "5", "6", "7", "8", "9">>[i]>>

\* ---- count_duplicates and check_duplicates
DupRecords ==
  {[sql |-> Some(x), time |-> 1, tb |-> Some(<<Frame1>>)] :
     x \in {SqlA1, SqlA2, SqlB, SqlC}}

DupCfgs ==
  {[DefaultCfg EXCEPT !.duplicate_min = d, !.log_queries = lq[1],
                      !.log_tbs = lq[2]] :
     d \in 1 .. MaxDupMin,
     lq \in {<<FALSE, FALSE>>, <<TRUE, FALSE>>, <<TRUE, TRUE>>}}

InitDup ==
  /\ cfg \in DupCfgs
  /\ IdleRequests
  /\ gauges = NoAttrs
  /\ IdleAnalysis

AppendDup(q) ==
  /\ last = NoCall
  /\ Len(batch) < MaxDupBatch
  /\ batch' = Append(batch, q)
  /\ UNCHANGED <<cfg, queries, local, gauges, span, open, text, last>>

CallCountDuplicates ==
  /\ LET infos == get_query_infos(batch).infos
     IN last' = [op |-> "count_duplicates", infos |-> infos,
                 ret |-> count_duplicates(infos)]
  /\ UNCHANGED <<cfg, queries, local, gauges, span, open, batch, text>>

CallCheckDuplicates ==
  /\ LET infos == get_query_infos(batch).infos
         r == check_duplicates(infos, cfg)
     IN last' = [op |-> "check_duplicates", infos |-> infos,
                 ret |-> r.n, log |-> r.log]
  /\ UNCHANGED <<cfg, queries, local, gauges, span, open, batch, text>>

NextDup ==
  \/ \E q \in DupRecords : AppendDup(q)
  \/ CallCountDuplicates
  \/ CallCheckDuplicates

SpecDup == InitDup /\ [][NextDup]_vars

\* ---- check_absolute_limit
AbsCfgs ==
  {[DefaultCfg EXCEPT !.absolute_limit = a] :
     a \in {None} \cup {Some(l) : l \in 0 .. MaxLimit}}

AbsStacks == {Some(<<>>), Some(<<Frame1, Frame2>>)}

InitAbs ==
  /\ cfg \in AbsCfgs
  /\ IdleRequests
  /\ gauges = NoAttrs
  /\ IdleAnalysis

AppendAbs(ms, tb) ==
  /\ last = NoCall
  /\ Len(batch) < MaxAbsBatch
  /\ batch' = Append(batch, [sql |-> Some(NthSql(Len(batch) + 1)),
                             time |-> ms, tb |-> tb])
  /\ UNCHANGED <<cfg, queries, local, gauges, span, open, text, last>>

\* A record of a non-query operation: q["sql"] is None.
AppendNoSql ==
  /\ last = NoCall
  /\ Len(batch) < MaxAbsBatch
  /\ batch' = Append(batch, [sql |-> None, time |-> MaxLimit + 1,
                             tb |-> None])
  /\ UNCHANGED <<cfg, queries, local, gauges, span, open, text, last>>

CallCheckAbsolute ==
  /\ LET infos == get_query_infos(batch).infos
         r == check_absolute_limit(infos, cfg)
     IN /\ last' = [op |-> "check_absolute_limit", raw |-> batch,
                    infos |-> infos, log |-> r.log, sets |-> r.sets]
        /\ gauges' = ApplySets(gauges, r.sets)
  /\ UNCHANGED <<cfg, queries, local, span, open, batch, text>>

NextAbs ==
  \/ \E ms \in 0 .. MaxLimit + 1, tb \in AbsStacks : AppendAbs(ms, tb)
  \/ AppendNoSql
  \/ CallCheckAbsolute

SpecAbs == InitAbs /\ [][NextAbs]_vars

\* ---- check_stddev_limit
StdCfgs ==
  {[DefaultCfg EXCEPT !.stddev_limit = a] :
     a \in {None} \cup {Some(l) : l \in 0 .. MaxMultiplier}}

\* q["time"] of "0.100" and of "0.183".
StdTimes == {100, 183}

StdStacks == {Some(<<>>), Some(<<Frame1>>)}

InitStd ==
  /\ cfg \in StdCfgs
  /\ IdleRequests
  /\ gauges = NoAttrs
  /\ IdleAnalysis

AppendStd(ms, tb) ==
  /\ last = NoCall
  /\ Len(batch) < MaxStdBatch
  /\ batch' = Append(batch, [sql |-> Some(NthSql(Len(batch) + 1)),
                             time |-> ms, tb |-> tb])
  /\ UNCHANGED <<cfg, queries, local, gauges, span, open, text, last>>

CallCheckStddev ==
  /\ LET infos == get_query_infos(batch).infos
         r == check_stddev_limit(infos, cfg)
         ran == cfg.stddev_limit # None /\ Len(infos) > 0
     IN /\ last' = [op |-> "check_stddev_limit", raw |-> batch,
                    infos |-> infos, ran |-> ran,
                    mean |-> IF ran THEN Mean(infos) ELSE FZero,
                    stddev |-> IF ran THEN Stddev(infos) ELSE FZero,
                    query_limit |->
                      IF ran THEN StddevLimit(infos, cfg) ELSE FZero,
                    log |-> r.log, sets |-> r.sets]
        /\ gauges' = ApplySets(gauges, r.sets)
  /\ UNCHANGED <<cfg, queries, local, span, open, batch, text>>

NextStd ==
  \/ \E ms \in StdTimes, tb \in StdStacks : AppendStd(ms, tb)
  \/ CallCheckStddev

SpecStd == InitStd /\ [][NextStd]_vars

\* ---- truncate_sql
TruncCfgs ==
  {[DefaultCfg EXCEPT !.sql_log_limit = a] :
     a \in {None} \cup {Some(l) : l \in 0 .. MaxTruncLimit}}

InitTrunc ==
  /\ cfg \in TruncCfgs
  /\ IdleRequests
  /\ gauges = NoAttrs
  /\ IdleAnalysis

AppendChar(ch) ==
  /\ last = NoCall
  /\ Len(text) < MaxTextLen
  /\ text' = Append(text, ch)
  /\ UNCHANGED <<cfg, queries, local, gauges, span, open, batch, last>>

CallTruncate ==
  /\ last' = [op |-> "truncate_sql", sql |-> text,
              ret |-> truncate_sql(text, cfg)]
  /\ UNCHANGED <<cfg, queries, local, gauges, span, open, batch, text>>

NextTrunc ==
  \/ \E ch \in {"a", "b"} : AppendChar(ch)
  \/ CallTruncate

SpecTrunc == InitTrunc /\ [][NextTrunc]_vars

\* ---- the mask of get_query_infos
MaskAlphabet == {"=", " ", "1", "2", "?", "a"}

Literals == {<<"1">>, <<"2">>, <<"1", "2">>, <<"2", "1", "1">>}

InitMask ==
  /\ cfg = DefaultCfg
  /\ IdleRequests
  /\ gauges = NoAttrs
  /\ IdleAnalysis

AppendSqlChar(ch) ==
  /\ last = NoCall
  /\ Len(text) < MaxSqlLen
  /\ text' = Append(text, ch)
  /\ UNCHANGED <<cfg, queries, local, gauges, span, open, batch, last>>

\* The mask of a text, and of its result.
CallMask ==
  /\ last' = [op |-> "mask", sql |-> text, ret |-> Mask(text),
              again |-> Mask(Mask(text))]
  /\ UNCHANGED <<cfg, queries, local, gauges, span, open, batch, text>>

\* The mask of a text and of the text with another integer literal in place of
\* the one that follows the "=" at i.
CallMaskPair(i, lit) ==
  /\ i \in 1 .. Len(text)
  /\ text[i] = "="
  /\ LET j == SkipWhile(text, i + 1, Spaces)
         k == SkipWhile(text, j, Digits)
         other == SubSeq(text, 1, j - 1) \o lit \o SubSeq(text, k, Len(text))
     IN /\ k > j
        /\ lit # SubSeq(text, j, k - 1)
        /\ last' = [op |-> "mask_pair", sql |-> text, other |-> other,
                    ret |-> Mask(text), again |-> Mask(Mask(text)),
                    ret_other |-> Mask(other)]
  /\ UNCHANGED <<cfg, queries, local, gauges, span, open, batch, text>>

NextMask ==
  \/ \E ch \in MaskAlphabet : AppendSqlChar(ch)
  \/ CallMask
  \/ \E i \in 1 .. MaxSqlLen, lit \in Literals : CallMaskPair(i, lit)

SpecMask == InitMask /\ [][NextMask]_vars

(***************************************************************************)
(* The request handlers: isolation and the life of a baseline.              *)
(***************************************************************************)
\* The warning lines of the absolute check that name no frame.
FramelessLines(log) ==
  SelectSeq(log, LAMBDA l : l.msg = "over absolute limit" /\ ~l.frame)

HasNoFrames(q) == q.tb = None \/ q.tb = Some(<<>>)

C2_NoBaselineNoOp ==
  (last.op = "process_response" /\ ~last.had_baseline) =>
    /\ ~last.raised
    /\ ~last.analysed
    /\ last.returned = last.response
    /\ last.log = <<>>
    /\ last.sets = <<>>

\* A process_response without a baseline on a context whose log holds records.
C2_Witness ==
  /\ last.op = "process_response"
  /\ ~last.had_baseline
  /\ ~last.raised
  /\ queries[last.ctx] # <<>>

\* C8: the analysis fails open on missing stack data: process_response does not
\* raise, every record of the batch becomes a QueryInfo, and each record with
\* no "tb" entry or an empty one, being over the limit, gets the frame-less
\* warning and no gauge sample.
C8_MissingStackFailsOpen ==
  (last.op = "process_response" /\ last.had_baseline) =>
    /\ ~last.raised
    /\ last.n = Len(last.sliced)
    /\ Len(FramelessLines(last.log)) = Len(SelectSeq(last.sliced, HasNoFrames))
    /\ Len(last.sets) =
         Len(SelectSeq(last.sliced, LAMBDA q : ~HasNoFrames(q)))

\* C10: a baseline is consumed by one request end: after a process_response
\* that found a baseline its context holds none, and a process_response with no
\* process_request since the previous process_response slices and analyses
\* nothing.
C10_BaselineConsumedOnce ==
  /\ (last.op = "process_response" /\ last.had_baseline) =>
       DOMAIN local[Slot(last.ctx)] = {}
  /\ (last.op = "process_response" /\ ~last.began) =>
       ~last.analysed /\ ~last.raised /\ last.sliced = <<>>

(***************************************************************************)
(* The analysis functions.                                                  *)
(***************************************************************************)
\* The SQL texts of a batch, and how often each occurs in it.
SqlsOf(infos) == {infos[i].sql : i \in 1 .. Len(infos)}
Occurrences(infos, sql) ==
  Cardinality({i \in 1 .. Len(infos) : infos[i].sql = sql})
FirstAt(infos, sql) ==
  CHOOSE i \in 1 .. Len(infos) :
    infos[i].sql = sql /\ \A j \in 1 .. (i - 1) : infos[j].sql # sql

RECURSIVE ExtraOccurrences(_, _, _)
ExtraOccurrences(sqls, infos, d) ==
  IF sqls = {} THEN 0
  ELSE LET sql == CHOOSE x \in sqls : TRUE
           k == Occurrences(infos, sql)
       IN (IF k >= d THEN k - 1 ELSE 0)
          + ExtraOccurrences(sqls \ {sql}, infos, d)

RECURSIVE TotalOf(_)
TotalOf(ret) == IF ret = <<>> THEN 0 ELSE Head(ret)[2] + TotalOf(Tail(ret))

\* C3: check_duplicates returns, over the SQL texts that occur at least
\* duplicate_min times, the sum of (occurrences - 1); a batch of one text
\* repeated k times gives k - 1 if k >= duplicate_min and 0 otherwise; the
\* empty batch gives 0 and no log line.
C3_DuplicatesAreExtraOccurrences ==
  (last.op = "check_duplicates") =>
    LET infos == last.infos
        d == cfg.duplicate_min
        k == Len(infos)
    IN /\ last.ret = ExtraOccurrences(SqlsOf(infos), infos, d)
       /\ (Cardinality(SqlsOf(infos)) = 1 =>
             last.ret = IF k >= d THEN k - 1 ELSE 0)
       /\ (infos = <<>> => last.ret = 0 /\ last.log = <<>>)

\* A batch with a text that counts (at its threshold exactly) and one that
\* does not.
C3_Witness ==
  /\ last.op = "check_duplicates"
  /\ last.ret >= 1
  /\ \E sql \in SqlsOf(last.infos) :
       Occurrences(last.infos, sql) = cfg.duplicate_min
  /\ \E sql \in SqlsOf(last.infos) :
       Occurrences(last.infos, sql) < cfg.duplicate_min

\* C4: the entries of count_duplicates hold each SQL text of the batch once,
\* with its number of occurrences, so the counts sum to the batch size; they
\* are in descending order of count, and entries of equal count are in the
\* order in which their texts first appear in the batch.
C4_CountDuplicatesSorted ==
  (last.op = "count_duplicates") =>
    LET infos == last.infos
        ret == last.ret
        n == Len(ret)
    IN /\ TotalOf(ret) = Len(infos)
       /\ {ret[i][1] : i \in 1 .. n} = SqlsOf(infos)
       /\ \A i, j \in 1 .. n : i # j => ret[i][1] # ret[j][1]
       /\ \A i \in 1 .. n : ret[i][2] = Occurrences(infos, ret[i][1])
       /\ \A i, j \in 1 .. n :
            i < j =>
              \/ ret[i][2] > ret[j][2]
              \/ /\ ret[i][2] = ret[j][2]
                 /\ FirstAt(infos, ret[i][1]) < FirstAt(infos, ret[j][1])

\* Three texts, two of them with the same count, and the most frequent one not
\* the first of the batch.
C4_Witness ==
  /\ last.op = "count_duplicates"
  /\ Len(last.ret) = 3
  /\ last.ret[1][2] > last.ret[2][2]
  /\ last.ret[2][2] = last.ret[3][2]
  /\ last.infos[1].sql # last.ret[1][1]

\* The records of a batch that carry an SQL text and took more than ms
\* milliseconds.
SlowerThan(raw, ms) ==
  {i \in 1 .. Len(raw) : raw[i].sql # None /\ raw[i].time > ms}

\* C5: with an absolute limit and a non-empty batch, check_absolute_limit
\* writes one warning line for each query that took strictly more than the
\* limit and none for any other; with no limit or an empty batch it writes no
\* line and sets no gauge.
C5_AbsoluteLimitIsStrict ==
  (last.op = "check_absolute_limit") =>
    IF cfg.absolute_limit = None \/ last.infos = <<>>
    THEN last.log = <<>> /\ last.sets = <<>>
    ELSE LET slow == SlowerThan(last.raw, Val(cfg.absolute_limit))
         IN /\ Len(last.log) = Cardinality(slow)
            /\ {last.log[i].sql : i \in 1 .. Len(last.log)}
                 = {Val(last.raw[i].sql) : i \in slow}
            /\ \A i \in 1 .. Len(last.log) : last.log[i].level = "warning"

\* A query that took the limit exactly beside one that took a millisecond
\* more.
C5_Witness ==
  /\ last.op = "check_absolute_limit"
  /\ cfg.absolute_limit # None
  /\ \E i \in 1 .. Len(last.raw) :
       last.raw[i].sql # None /\ last.raw[i].time = Val(cfg.absolute_limit)
  /\ \E i \in 1 .. Len(last.raw) :
       last.raw[i].sql # None
       /\ last.raw[i].time = Val(cfg.absolute_limit) + 1
  /\ Len(last.log) = 1

\* C6: in a batch of two or more queries that all took the same time,
\* check_stddev_limit flags no query, whatever the multiplier: it writes no
\* warning line and sets no gauge.
C6_IdenticalTimesNeverFlagged ==
  (/\ last.op = "check_stddev_limit"
   /\ cfg.stddev_limit # None
   /\ Len(last.raw) >= 2
   /\ \A i \in 1 .. Len(last.raw) : last.raw[i].time = last.raw[1].time)
  => last.log = <<>> /\ last.sets = <<>>

\* C7: for a limit that is set and a text longer than it, truncate_sql returns
\* at most limit characters: a non-empty head of the text, " ... ", and a
\* non-empty tail of the text; any other text is returned as it is.
C7_TruncateWithinLimit ==
  (last.op = "truncate_sql") =>
    LET sql == last.sql
        limit == cfg.sql_log_limit
    IN IF limit # None /\ Val(limit) > 0 /\ Len(sql) > Val(limit)
       THEN /\ Len(last.ret) <= Val(limit)
            /\ \E i, j \in 1 .. Len(sql) :
                 last.ret = SubSeq(sql, 1, i) \o Ellipsis
                            \o SubSeq(sql, Len(sql) - j + 1, Len(sql))
       ELSE last.ret = sql

\* C9: the mask is idempotent, and two texts that differ only in the integer
\* literal after an "=" have the same masked text.
C9_MaskIdempotentAndConflating ==
  /\ (last.op \in {"mask", "mask_pair"} => last.again = last.ret)
  /\ (last.op = "mask_pair" => last.ret = last.ret_other)

\* Two different texts, one with a literal of several digits, that the mask
\* changes.
C9_Witness ==
  /\ last.op = "mask_pair"
  /\ last.sql # last.other
  /\ last.ret # last.sql
  /\ Len(last.sql) # Len(last.other)

====
